---- MODULE Spec2Model ----
(***************************************************************************)
(* Client-side claim flow of the insurance demo front end:                 *)
(*   - NewClaim page (frontend/src/pages/NewClaim.js) with the ImageUpload *)
(*     widget (unnamed/part_004) that stages categorised image files;      *)
(*   - CarVerification widget (unnamed/part_005) that uploads one image    *)
(*     per angle and polls the verification status.                        *)
(* Strings that the code builds by concatenation are modelled as records   *)
(* of their parts, category names as sequences of characters where the     *)
(* code edits characters.                                                  *)
(*                                                                         *)
(* The specifications share the variables:                                 *)
(*   Spec             the upload queue: drops, removals, category changes, *)
(*                    the gallery's re-render, leaving the page;           *)
(*   SubmitSpec       the form submitted with any staged queue of up to    *)
(*                    MaxStaged files, and the answers to POST /claims;    *)
(*   VerificationSpec the CarVerification widget against its server;       *)
(*   VerificationLiveSpec  the same from a claim without images, with the  *)
(*                    continuations of answered uploads weakly fair;       *)
(*   ClaimViewSpec    the ViewClaim page (unnamed/part_000): the claim     *)
(*                    record, its fetch and the admin status change;       *)
(*   AdminDashboardSpec  the AdminDashboard page (unnamed/part_003): the   *)
(*                    filters, the selection and the bulk status change;   *)
(*   ContactSpec      the Contact page (frontend/src/pages/Contact.js).    *)
(* The gallery handlers get the position of a card as it was rendered;     *)
(* `view` keeps that rendering, which lags the queue until Render.         *)
(***************************************************************************)
EXTENDS Integers, Sequences, FiniteSets, TLC

VARIABLES
  files,            \* NewClaim state `files`: the staged-file queue
  selectedCategory, \* ImageUpload state `selectedCategory`
  view,             \* ids of the gallery cards as last rendered, by position
  nextId,           \* next fresh token for id / preview handle
  objectURLs,       \* preview handles allocated by URL.createObjectURL and not revoked
  formData,         \* NewClaim state `formData`
  loading,          \* NewClaim state `loading`
  error,            \* NewClaim state `error`
  posts,            \* POST /claims requests in flight
  orphans,          \* POST /claims requests in flight whose page instance is gone
  route,            \* current route of the router
  toast,            \* last toast shown (one container for the whole app)
  claimId,          \* CarVerification prop `claimId`
  verificationStatus, \* CarVerification state: cached copy of the server's status
  isLoading,        \* CarVerification state `isLoading`
  isUploading,      \* CarVerification state `isUploading`
  activeAngle,      \* CarVerification state `activeAngle`
  uploads,          \* per-angle upload requests in flight
  polls,            \* verification-status requests in flight
  pollSeq,          \* number of verification-status requests issued so far
  shownPoll,        \* number of the request whose answer is the cached status
  server,           \* server side: per claim, the state of each angle
  claim,            \* ViewClaim state `claim`
  claimLoading,     \* ViewClaim state `loading`
  isAdmin,          \* user?.is_admin of the signed-in user
  requests,         \* GET /claims/{id} and PUT /admin/claims/{id}/status in flight
  reqSeq,           \* number of such requests issued so far
  db,               \* server side: the status of each claim
  claims,           \* AdminDashboard state `claims`
  filteredClaims,   \* AdminDashboard state `filteredClaims`
  selectedClaims,   \* AdminDashboard state `selectedClaims`: ids in selection order
  searchTerm,       \* AdminDashboard state `searchTerm`
  statusFilter,     \* AdminDashboard state `statusFilter`
  riskFilter,       \* AdminDashboard state `riskFilter`
  showBulkModal,    \* AdminDashboard state `showBulkModal`
  bulkAction,       \* AdminDashboard state `bulkAction`
  adminLoading,     \* AdminDashboard state `loading`
  fetches,          \* fetchData calls in flight
  bulks,            \* batches of bulk status requests in flight
  bulkSeq,          \* number of batches sent so far
  contactForm,      \* Contact state `formData`
  contactLoading,   \* Contact state `loading`
  contactSuccess,   \* Contact state `success`
  contactErrors,    \* Contact state `errors`
  contactPosts      \* POST /api/contact/send requests in flight

widgetVars == <<files, selectedCategory, view, nextId, objectURLs>>
pageVars == <<formData, loading, error, posts, orphans, route, toast>>
verifVars == <<claimId, verificationStatus, isLoading, isUploading, activeAngle,
               uploads, polls, pollSeq, shownPoll, server>>
detailVars == <<claim, claimLoading, isAdmin, requests, reqSeq, db>>
adminVars == <<claims, filteredClaims, selectedClaims, searchTerm, statusFilter,
               riskFilter, showBulkModal, bulkAction, adminLoading, fetches, bulks,
               bulkSeq>>
contactVars == <<contactForm, contactLoading, contactSuccess, contactErrors,
                 contactPosts>>
vars == <<widgetVars, pageVars, verifVars, detailVars, adminVars, contactVars>>

----------------------------------------------------------------------------
(* Bounds *)

\* total number of files ever staged (ids are never reused)
MaxId == 4
\* largest number of image files in one drop
MaxDrop == 4
\* `maxFiles` prop of ImageUpload (12 in NewClaim, 10 by default), scaled down
maxFiles == 3
\* number of form fields the user has filled in
MaxFilled == 1
\* longest staged queue a submission starts from
MaxStaged == 4
\* number of verification-status requests issued
MaxPolls == 3
\* number of claim requests (GET /claims, PUT status) issued
MaxRequests == 4
\* bulk actions applied on the admin dashboard
MaxBulks == 1

----------------------------------------------------------------------------
(* ImageUpload: categories *)

imageCategories ==
  << [value |-> "front", label |-> "Front View"],
     [value |-> "rear",  label |-> "Rear View"],
     [value |-> "back",  label |-> "Back View"],
     [value |-> "top",   label |-> "Top View"] >>

CategoryValues == { imageCategories[i].value : i \in DOMAIN imageCategories }

\* imageCategories.find(cat => cat.value === v)?.label
LabelOf(v) ==
  LET hits == SelectSeq(imageCategories, LAMBDA cat : cat.value = v)
  IN  IF Len(hits) = 0 THEN "undefined" ELSE hits[1].label

requiredCategories == << "front", "rear", "back", "top" >>

\* the characters of a category name
charsOf ==
  [ front |-> << "f", "r", "o", "n", "t" >>,
    rear  |-> << "r", "e", "a", "r" >>,
    back  |-> << "b", "a", "c", "k" >>,
    top   |-> << "t", "o", "p" >> ]

toUpperCase(ch) ==
  CASE ch = "f" -> "F"
    [] ch = "r" -> "R"
    [] ch = "b" -> "B"
    [] ch = "t" -> "T"
    [] OTHER    -> ch

\* cat.charAt(0).toUpperCase() + cat.slice(1)
Capitalize(cat) ==
  << toUpperCase(Head(charsOf[cat])) >> \o Tail(charsOf[cat])

----------------------------------------------------------------------------
(* Messages: the fixed text and the list of names joined into it *)

Msg(text, names) == [text |-> text, names |-> names]
NoMsg == Msg("", << >>)

FormFields == { "policy_number", "accident_date", "location", "description" }
FormValues == { "", "x" }

\* `detail` of the error payload of POST /claims; "" when there is none
ServerDetails == { "", "Policy not found" }
\* ids the server gives to created claims
ClaimIds == { 1, 2 }

Route(page, id) == [page |-> page, id |-> id]

----------------------------------------------------------------------------
(* ImageUpload: pure functions over the queue *)

RECURSIVE CountCategory(_, _)
\* files.filter(file => file.category === v).length
CountCategory(fs, v) ==
  IF fs = << >> THEN 0
  ELSE (IF Head(fs).category = v THEN 1 ELSE 0) + CountCategory(Tail(fs), v)

\* counts the files whose label, not category, equals the value
getCategoryStats_mut(fs) ==
  [ v \in CategoryValues |->
      Len(SelectSeq(fs, LAMBDA file : file.categoryLabel = v)) ]

getCategoryStats(fs) ==
  [ v \in CategoryValues |-> CountCategory(fs, v) ]

\* reports the categories with at most one file
getMissingCategories_mut(fs) ==
  LET stats == getCategoryStats(fs)
  IN  SelectSeq(imageCategories, LAMBDA cat : stats[cat.value] <= 1)

getMissingCategories(fs) ==
  LET stats == getCategoryStats(fs)
  IN  SelectSeq(imageCategories, LAMBDA cat : stats[cat.value] = 0)

\* keeps only the files before index
FilterOutIndex_mut(fs, index) ==
  [ i \in 1 .. (IF index \in DOMAIN fs THEN index - 1 ELSE Len(fs)) |-> fs[i] ]

\* prev.filter((_, i) => i !== index), positions counted from 1
FilterOutIndex(fs, index) ==
  [ i \in 1 .. (IF index \in DOMAIN fs THEN Len(fs) - 1 ELSE Len(fs)) |->
      IF i < index THEN fs[i] ELSE fs[i + 1] ]

\* changes the category and leaves the label of the old one
MapCategoryAt_mut(fs, index, newCategory) ==
  [ i \in DOMAIN fs |->
      IF i = index THEN [ fs[i] EXCEPT !.category = newCategory ] ELSE fs[i] ]

\* prev.map((file, i) => i === index ? {...file, category, categoryLabel} : file)
MapCategoryAt(fs, index, newCategory) ==
  [ i \in DOMAIN fs |->
      IF i = index
        THEN [ fs[i] EXCEPT !.category = newCategory,
                            !.categoryLabel = LabelOf(newCategory) ]
        ELSE fs[i] ]

\* acceptedFiles.map(file => ({ ..., id, preview, category, categoryLabel }))
NewFiles(n, first, category) ==
  [ i \in 1 .. n |->
      [ id |-> first + i - 1,
        preview |-> first + i - 1,
        category |-> category,
        categoryLabel |-> LabelOf(category) ] ]

\* react-dropzone (accept: image/*, maxFiles): files of other types are rejected,
\* and a drop with more image files than maxFiles is rejected whole
AcceptedCount(nImages, nOthers) == IF nImages > maxFiles THEN 0 ELSE nImages

IdsOf(fs) == [ i \in DOMAIN fs |-> fs[i].id ]

----------------------------------------------------------------------------
(* NewClaim: validation *)

\* keeps the categories that are present instead of the absent ones
validateImages_mut(fs) ==
  IF Len(fs) = 0
    THEN Msg("Please upload at least one image", << >>)
    ELSE LET uploadedCategories == { fs[i].category : i \in DOMAIN fs }
             missingCategories ==
               SelectSeq(requiredCategories, LAMBDA cat : cat \in uploadedCategories)
         IN  IF Len(missingCategories) > 0
               THEN Msg("Missing required vehicle images: ",
                        [ i \in DOMAIN missingCategories |->
                            Capitalize(missingCategories[i]) ])
               ELSE NoMsg

validateImages(fs) ==
  IF Len(fs) = 0
    THEN Msg("Please upload at least one image", << >>)
    ELSE LET uploadedCategories == { fs[i].category : i \in DOMAIN fs }
             missingCategories ==
               SelectSeq(requiredCategories, LAMBDA cat : cat \notin uploadedCategories)
         IN  IF Len(missingCategories) > 0
               THEN Msg("Missing required vehicle images: ",
                        [ i \in DOMAIN missingCategories |->
                            Capitalize(missingCategories[i]) ])
               ELSE NoMsg

\* always the fixed text
SubmitFailureMessage_mut(detail) == Msg("Failed to submit claim", << >>)

\* error.response?.data?.detail || 'Failed to submit claim'
SubmitFailureMessage(detail) ==
  IF detail # "" THEN Msg(detail, << >>) ELSE Msg("Failed to submit claim", << >>)

\* {error && <Alert>{typeof error === 'string' ? error : ...}</Alert>}
ShownError == error

----------------------------------------------------------------------------
(* NewClaim page with its ImageUpload widget *)

InitialForm == [ f \in FormFields |-> "" ]
OnNewClaim == route.page = "new"

WidgetInit ==
  /\ files = << >>
  /\ selectedCategory = "front"
  /\ view = << >>
  /\ nextId = 1
  /\ objectURLs = {}

PageInit ==
  /\ formData = InitialForm
  /\ loading = FALSE
  /\ error = NoMsg
  /\ posts = 0
  /\ orphans = 0
  /\ route = Route("new", 0)
  /\ toast = NoMsg

\* the page instance goes away: its state is dropped, its requests stay in flight
Unmounted ==
  /\ files' = << >>
  /\ selectedCategory' = "front"
  /\ view' = << >>
  /\ formData' = InitialForm
  /\ loading' = FALSE
  /\ error' = NoMsg
  /\ posts' = 0

setSelectedCategory(c) ==
  /\ OnNewClaim
  /\ selectedCategory' = c
  /\ UNCHANGED <<files, view, nextId, objectURLs, pageVars>>
  /\ UNCHANGED <<verifVars, detailVars, adminVars, contactVars>>

\* a drop of nImages image files and nOthers files of other types
onDrop(nImages, nOthers) ==
  LET n == AcceptedCount(nImages, nOthers)
  IN  /\ OnNewClaim
      /\ nextId + n - 1 <= MaxId
      /\ files' = files \o NewFiles(n, nextId, selectedCategory)
      /\ objectURLs' = objectURLs \cup (nextId .. nextId + n - 1)
      /\ nextId' = nextId + n
      /\ UNCHANGED <<selectedCategory, view, pageVars>>
      /\ UNCHANGED <<verifVars, detailVars, adminVars, contactVars>>

\* the trash button of the card rendered at position index
removeFile(index) ==
  /\ OnNewClaim
  /\ index \in DOMAIN view
  /\ files' = FilterOutIndex(files, index)
  /\ UNCHANGED <<selectedCategory, view, nextId, objectURLs, pageVars>>
  /\ UNCHANGED <<verifVars, detailVars, adminVars, contactVars>>

\* the category select of the card rendered at position index
updateFileCategory(index, newCategory) ==
  /\ OnNewClaim
  /\ index \in DOMAIN view
  /\ files' = MapCategoryAt(files, index, newCategory)
  /\ UNCHANGED <<selectedCategory, view, nextId, objectURLs, pageVars>>
  /\ UNCHANGED <<verifVars, detailVars, adminVars, contactVars>>

\* the gallery is rendered again from the queue
Render ==
  /\ OnNewClaim
  /\ view # IdsOf(files)
  /\ view' = IdsOf(files)
  /\ UNCHANGED <<files, selectedCategory, nextId, objectURLs, pageVars>>
  /\ UNCHANGED <<verifVars, detailVars, adminVars, contactVars>>

handleChange(name, value) ==
  /\ OnNewClaim
  /\ formData' = [formData EXCEPT ![name] = value]
  /\ Cardinality({ f \in FormFields : formData'[f] # "" }) <= MaxFilled
  /\ UNCHANGED <<widgetVars, loading, error, posts, orphans, route, toast>>
  /\ UNCHANGED <<verifVars, detailVars, adminVars, contactVars>>

handleSubmit_mut ==
  LET imageError == validateImages(files)
  IN  /\ OnNewClaim
      /\ posts < 2
      /\ IF imageError # NoMsg
           THEN /\ error' = imageError
                /\ UNCHANGED <<loading, posts>>
           ELSE /\ loading' = TRUE
                /\ error' = NoMsg
                /\ posts' = posts + 1
      /\ UNCHANGED <<widgetVars, formData, orphans, route, toast>>
      /\ UNCHANGED <<verifVars, detailVars, adminVars, contactVars>>

\* the submit button is disabled while loading
handleSubmit ==
  LET imageError == validateImages(files)
  IN  /\ OnNewClaim
      /\ ~loading
      /\ IF imageError # NoMsg
           THEN /\ error' = imageError
                /\ UNCHANGED <<loading, posts>>
           ELSE /\ loading' = TRUE
                /\ error' = NoMsg
                /\ posts' = posts + 1
      /\ UNCHANGED <<widgetVars, formData, orphans, route, toast>>
      /\ UNCHANGED <<verifVars, detailVars, adminVars, contactVars>>

\* POST /claims of this page instance answers 2xx with the created claim
PostOk(id) ==
  /\ posts > 0
  /\ toast' = Msg("Claim submitted successfully!", << >>)
  /\ route' = Route("claim", id)
  /\ Unmounted
  /\ orphans' = orphans + (posts - 1)
  /\ UNCHANGED <<nextId, objectURLs>>
  /\ UNCHANGED <<verifVars, detailVars, adminVars, contactVars>>

PostFail_mut(detail) ==
  LET message == SubmitFailureMessage(detail)
  IN  /\ posts > 0
      /\ posts' = posts - 1
      /\ error' = message
      /\ toast' = message
      /\ loading' = FALSE
      /\ route' = Route("claim", 1)
      /\ UNCHANGED <<widgetVars, formData, orphans>>
      /\ UNCHANGED <<verifVars, detailVars, adminVars, contactVars>>

\* POST /claims of this page instance fails
PostFail(detail) ==
  LET message == SubmitFailureMessage(detail)
  IN  /\ posts > 0
      /\ posts' = posts - 1
      /\ error' = message
      /\ toast' = message
      /\ loading' = FALSE
      /\ UNCHANGED <<widgetVars, formData, orphans, route>>
      /\ UNCHANGED <<verifVars, detailVars, adminVars, contactVars>>

\* a POST /claims of a page instance that is gone answers 2xx
OrphanPostOk(id) ==
  /\ orphans > 0
  /\ toast' = Msg("Claim submitted successfully!", << >>)
  /\ route' = Route("claim", id)
  /\ Unmounted
  /\ orphans' = orphans - 1 + posts
  /\ UNCHANGED <<nextId, objectURLs>>
  /\ UNCHANGED <<verifVars, detailVars, adminVars, contactVars>>

\* a POST /claims of a page instance that is gone fails
OrphanPostFail(detail) ==
  /\ orphans > 0
  /\ orphans' = orphans - 1
  /\ toast' = SubmitFailureMessage(detail)
  /\ UNCHANGED <<widgetVars, formData, loading, error, posts, route>>
  /\ UNCHANGED <<verifVars, detailVars, adminVars, contactVars>>

\* the Cancel button: navigate('/dashboard')
Cancel ==
  /\ OnNewClaim
  /\ route' = Route("dashboard", 0)
  /\ Unmounted
  /\ orphans' = orphans + posts
  /\ UNCHANGED <<nextId, objectURLs, toast>>
  /\ UNCHANGED <<verifVars, detailVars, adminVars, contactVars>>

----------------------------------------------------------------------------
(* CarVerification widget: per-angle uploads and the verification status *)

ANGLES ==
  << [id |-> "front", label |-> "Front View"],
     [id |-> "back",  label |-> "Rear View"],
     [id |-> "left",  label |-> "Left Side"],
     [id |-> "right", label |-> "Right Side"] >>

AngleIds == { ANGLES[i].id : i \in DOMAIN ANGLES }

\* verificationStatus before any status was stored (null)
NoStatus == [null |-> TRUE]
NoFailure == [detail |-> "", message |-> ""]

\* ways POST /api/car-verification/upload fails: an error payload with a
\* detail, or no payload at all (detail "" and the transport's own message)
UploadFailures ==
  { [detail |-> "Image does not match the vehicle",
     message |-> "Request failed with status code 400"],
    [detail |-> "", message |-> "Network Error"] }

\* body of GET /api/car-verification/status/{claimId}
StatusBody(angles) ==
  LET verified == Cardinality({ a \in AngleIds : angles[a] = "verified" })
  IN  [ verified_angles |-> verified,
        total_angles |-> Cardinality(AngleIds),
        angles |-> [ a \in AngleIds |->
                       [ uploaded |-> angles[a] # "none",
                         verified |-> angles[a] = "verified" ] ],
        status |-> IF verified = Cardinality(AngleIds) THEN "complete" ELSE "pending" ]

\* what the server holds for a claim when the widget is opened: nothing yet,
\* or every angle but the last one verified on an earlier visit
AnglesNone == [ a \in AngleIds |-> "none" ]
AnglesAlmost == [ a \in AngleIds |-> IF a = "right" THEN "none" ELSE "verified" ]
ServerStates ==
  { [ c \in ClaimIds |-> IF c = 1 THEN s ELSE AnglesNone ] :
      s \in { AnglesNone, AnglesAlmost } }

Poll(n, cid) == [n |-> n, claim |-> cid, state |-> "sent", body |-> NoStatus]

\* number for a request that no upload in flight carries
FreshUpload ==
  CHOOSE i \in 1 .. Cardinality(uploads) + 1 :
    /\ \A u \in uploads : u.n # i
    /\ \A j \in 1 .. i - 1 : \E u \in uploads : u.n = j

\* Math.round(verified_angles / total_angles * 100), 0 while nothing is stored
overallProgressOf_mut(status) ==
  IF status = NoStatus
    THEN 0
    ELSE (2 * status.verified_angles + status.total_angles) \div (2 * status.total_angles)

overallProgressOf(status) ==
  IF status = NoStatus
    THEN 0
    ELSE (200 * status.verified_angles + status.total_angles) \div (2 * status.total_angles)

overallProgress == overallProgressOf(verificationStatus)

\* the header badge `{overallProgress}% Complete`; the card body is replaced
\* by a spinner while isLoading
HeaderBadge ==
  [ shown |-> ~isLoading,
    text |-> "{0}% Complete",
    percent |-> overallProgress,
    bg |-> IF overallProgress = 100 THEN "success" ELSE "warning" ]

\* verificationStatus?.status === 'complete' && <Badge>Verification Complete</Badge>
CompletionBadgeShown_mut ==
  /\ ~isLoading
  /\ verificationStatus # NoStatus
  /\ verificationStatus.status # ""

CompletionBadgeShown ==
  /\ ~isLoading
  /\ verificationStatus # NoStatus
  /\ verificationStatus.status = "complete"

\* disabled={isUploading} on the button that opens the file input of an angle
UploadDisabled_mut(angle) == FALSE

UploadDisabled(angle) == isUploading

\* the widget is not on the page
VerifIdle ==
  /\ claimId = 0
  /\ verificationStatus = NoStatus
  /\ isLoading = FALSE
  /\ isUploading = FALSE
  /\ activeAngle = "null"
  /\ uploads = {}
  /\ polls = {}
  /\ pollSeq = 0
  /\ shownPoll = 0
  /\ server = [ c \in ClaimIds |-> AnglesNone ]

\* the widget is mounted for claim 1: useEffect calls fetchVerificationStatus
VerifInit ==
  /\ claimId = 1
  /\ verificationStatus = NoStatus
  /\ isLoading = TRUE
  /\ isUploading = FALSE
  /\ activeAngle = "null"
  /\ uploads = {}
  /\ polls = { Poll(1, 1) }
  /\ pollSeq = 1
  /\ shownPoll = 0
  /\ server \in ServerStates

\* toast.error(`Failed to upload ${angle} image: ${detail || error.message}`)
UploadFailureToast_mut(angle, failure) ==
  Msg("Failed to upload {0} image: {1}", << angle, failure.message >>)

UploadFailureToast(angle, failure) ==
  Msg("Failed to upload {0} image: {1}",
      << angle, IF failure.detail # "" THEN failure.detail ELSE failure.message >>)

\* fetchVerificationStatus up to the await: setIsLoading(true), GET sent
fetchVerificationStatus(cid) ==
  /\ isLoading' = TRUE
  /\ pollSeq' = pollSeq + 1
  /\ polls' = polls \cup { Poll(pollSeq + 1, cid) }

\* the server answers a status request
PollServerOk(p) ==
  /\ p \in polls
  /\ p.state = "sent"
  /\ polls' = (polls \ {p}) \cup
                { [p EXCEPT !.state = "ok", !.body = StatusBody(server[p.claim])] }
  /\ UNCHANGED <<claimId, verificationStatus, isLoading, isUploading, activeAngle,
                 uploads, pollSeq, shownPoll, server>>
  /\ UNCHANGED <<widgetVars, pageVars, detailVars, adminVars, contactVars>>

\* a status request fails
PollServerFail(p) ==
  /\ p \in polls
  /\ p.state = "sent"
  /\ polls' = (polls \ {p}) \cup { [p EXCEPT !.state = "failed"] }
  /\ UNCHANGED <<claimId, verificationStatus, isLoading, isUploading, activeAngle,
                 uploads, pollSeq, shownPoll, server>>
  /\ UNCHANGED <<widgetVars, pageVars, detailVars, adminVars, contactVars>>

PollResolved_mut(p) ==
  /\ p \in polls
  /\ p.state = "ok"
  /\ polls' = polls \ {p}
  /\ shownPoll' = p.n
  /\ isLoading' = FALSE
  /\ UNCHANGED <<claimId, verificationStatus, isUploading, activeAngle, uploads,
                 pollSeq, server>>
  /\ UNCHANGED <<widgetVars, pageVars, detailVars, adminVars, contactVars>>

\* fetchVerificationStatus after the await, response 2xx
PollResolved(p) ==
  /\ p \in polls
  /\ p.state = "ok"
  /\ polls' = polls \ {p}
  /\ verificationStatus' = p.body
  /\ shownPoll' = p.n
  /\ isLoading' = FALSE
  /\ UNCHANGED <<claimId, isUploading, activeAngle, uploads, pollSeq, server>>
  /\ UNCHANGED <<widgetVars, pageVars, detailVars, adminVars, contactVars>>

\* fetchVerificationStatus after the await, request failed
PollRejected(p) ==
  /\ p \in polls
  /\ p.state = "failed"
  /\ polls' = polls \ {p}
  /\ toast' = Msg("Failed to load verification status", << >>)
  /\ isLoading' = FALSE
  /\ UNCHANGED <<claimId, verificationStatus, isUploading, activeAngle, uploads,
                 pollSeq, shownPoll, server>>
  /\ UNCHANGED <<widgetVars, formData, loading, error, posts, orphans, route, detailVars, adminVars, contactVars>>

\* a file is picked in the input of an angle: setActiveAngle, handleFileUpload
\* up to the await; the inputs are rendered only when not loading and the
\* buttons that open them are disabled while uploading
StartUpload(angle) ==
  /\ ~isLoading
  /\ ~UploadDisabled(angle)
  /\ pollSeq + Cardinality(uploads) < MaxPolls
  /\ activeAngle' = angle
  /\ isUploading' = TRUE
  /\ uploads' = uploads \cup
                  { [ n |-> FreshUpload, state |-> "sent", claim |-> claimId,
                      angle |-> angle, failure |-> NoFailure ] }
  /\ UNCHANGED <<claimId, verificationStatus, isLoading, polls, pollSeq, shownPoll,
                 server>>
  /\ UNCHANGED <<widgetVars, pageVars, detailVars, adminVars, contactVars>>

\* the server stores the image; its review verifies the angle or leaves it pending
UploadServerOk(u, verified) ==
  /\ u \in uploads
  /\ u.state = "sent"
  /\ server' = [server EXCEPT ![u.claim][u.angle] =
                  IF verified THEN "verified" ELSE "uploaded"]
  /\ uploads' = (uploads \ {u}) \cup { [u EXCEPT !.state = "ok"] }
  /\ UNCHANGED <<claimId, verificationStatus, isLoading, isUploading, activeAngle,
                 polls, pollSeq, shownPoll>>
  /\ UNCHANGED <<widgetVars, pageVars, detailVars, adminVars, contactVars>>

\* the upload fails
UploadServerFail(u, failure) ==
  /\ u \in uploads
  /\ u.state = "sent"
  /\ uploads' = (uploads \ {u}) \cup
                  { [u EXCEPT !.state = "failed", !.failure = failure] }
  /\ UNCHANGED <<claimId, verificationStatus, isLoading, isUploading, activeAngle,
                 polls, pollSeq, shownPoll, server>>
  /\ UNCHANGED <<widgetVars, pageVars, detailVars, adminVars, contactVars>>

UploadResolved_mut(u) ==
  /\ u \in uploads
  /\ u.state = "ok"
  /\ toast' = Msg("{0} image uploaded successfully", << u.angle >>)
  /\ fetchVerificationStatus(u.claim)
  /\ verificationStatus' = StatusBody([AnglesNone EXCEPT ![u.angle] = "verified"])
  /\ isUploading' = FALSE
  /\ activeAngle' = "null"
  /\ uploads' = uploads \ {u}
  /\ UNCHANGED <<claimId, shownPoll, server>>
  /\ UNCHANGED <<widgetVars, formData, loading, error, posts, orphans, route, detailVars, adminVars, contactVars>>

\* handleFileUpload after the await, response 2xx
UploadResolved(u) ==
  /\ u \in uploads
  /\ u.state = "ok"
  /\ toast' = Msg("{0} image uploaded successfully", << u.angle >>)
  /\ fetchVerificationStatus(u.claim)
  /\ isUploading' = FALSE
  /\ activeAngle' = "null"
  /\ uploads' = uploads \ {u}
  /\ UNCHANGED <<claimId, verificationStatus, shownPoll, server>>
  /\ UNCHANGED <<widgetVars, formData, loading, error, posts, orphans, route, detailVars, adminVars, contactVars>>

UploadRejected_mut(u) ==
  /\ u \in uploads
  /\ u.state = "failed"
  /\ toast' = UploadFailureToast(u.angle, u.failure)
  /\ fetchVerificationStatus(u.claim)
  /\ isUploading' = FALSE
  /\ activeAngle' = "null"
  /\ uploads' = uploads \ {u}
  /\ UNCHANGED <<claimId, verificationStatus, shownPoll, server>>
  /\ UNCHANGED <<widgetVars, formData, loading, error, posts, orphans, route, detailVars, adminVars, contactVars>>

UploadRejected_mutKeepsFlag(u) ==
  /\ u \in uploads
  /\ u.state = "failed"
  /\ toast' = UploadFailureToast(u.angle, u.failure)
  /\ uploads' = uploads \ {u}
  /\ UNCHANGED <<claimId, verificationStatus, isLoading, isUploading, activeAngle,
                 polls, pollSeq, shownPoll, server>>
  /\ UNCHANGED <<widgetVars, formData, loading, error, posts, orphans, route, detailVars, adminVars, contactVars>>

\* handleFileUpload after the await, request failed
UploadRejected(u) ==
  /\ u \in uploads
  /\ u.state = "failed"
  /\ toast' = UploadFailureToast(u.angle, u.failure)
  /\ isUploading' = FALSE
  /\ activeAngle' = "null"
  /\ uploads' = uploads \ {u}
  /\ UNCHANGED <<claimId, verificationStatus, isLoading, polls, pollSeq, shownPoll,
                 server>>
  /\ UNCHANGED <<widgetVars, formData, loading, error, posts, orphans, route, detailVars, adminVars, contactVars>>

\* the claim view shows another claim: the prop changes and the effect runs again
SetClaimId(c) ==
  /\ c # claimId
  /\ pollSeq + Cardinality(uploads) < MaxPolls
  /\ claimId' = c
  /\ route' = Route("claim", c)
  /\ fetchVerificationStatus(c)
  /\ UNCHANGED <<verificationStatus, isUploading, activeAngle, uploads, shownPoll,
                 server>>
  /\ UNCHANGED <<widgetVars, formData, loading, error, posts, orphans, toast, detailVars, adminVars, contactVars>>

----------------------------------------------------------------------------
(* ViewClaim page: the claim record, its fetch and the admin status change *)

\* `claim` before any record was stored (null)
NoClaim == [null |-> TRUE]

\* the values the status menu offers
Statuses == { "pending", "review", "approved", "rejected" }

\* ways GET /claims/{id} fails: error.response?.status, 0 for no response
FetchFailures == { 404, 403, 0 }

\* body of GET /claims/{id}
ClaimBody(id) == [id |-> id, status |-> db[id], updated_at |-> "server"]

Mounted == route.page = "claim"

\* the page is not shown
DetailIdle ==
  /\ claim = NoClaim
  /\ claimLoading = TRUE
  /\ isAdmin = FALSE
  /\ requests = {}
  /\ reqSeq = 0
  /\ db = [ c \in ClaimIds |-> "pending" ]

\* n GET /claims/{id} requests numbered from first
Gets(first, n, id) ==
  { [n |-> first + i, kind |-> "get", id |-> id, status |-> "", state |-> "sent",
     code |-> 0, body |-> NoClaim] : i \in 0 .. n - 1 }

\* the page is opened on claim 1: both effects call fetchClaim
DetailInit ==
  /\ claim = NoClaim
  /\ claimLoading = TRUE
  /\ isAdmin \in BOOLEAN
  /\ requests = Gets(1, 2, 1)
  /\ reqSeq = 2
  /\ db = [ c \in ClaimIds |-> "pending" ]

\* the page instance goes away: its state is dropped, its requests stay in flight
DetailUnmounted ==
  /\ claim' = NoClaim
  /\ claimLoading' = TRUE

\* the server answers GET /claims/{id}
FetchServerOk(r) ==
  /\ r \in requests
  /\ r.kind = "get"
  /\ r.state = "sent"
  /\ requests' = (requests \ {r}) \cup
                   { [r EXCEPT !.state = "ok", !.body = ClaimBody(r.id)] }
  /\ UNCHANGED <<claim, claimLoading, isAdmin, reqSeq, db>>
  /\ UNCHANGED <<widgetVars, pageVars, verifVars, adminVars, contactVars>>

\* GET /claims/{id} fails
FetchServerFail(r, code) ==
  /\ r \in requests
  /\ r.kind = "get"
  /\ r.state = "sent"
  /\ requests' = (requests \ {r}) \cup { [r EXCEPT !.state = "failed", !.code = code] }
  /\ UNCHANGED <<claim, claimLoading, isAdmin, reqSeq, db>>
  /\ UNCHANGED <<widgetVars, pageVars, verifVars, adminVars, contactVars>>

\* fetchClaim after the await, response 2xx: setClaim(response.data), setLoading(false)
fetchClaimResolved(r) ==
  /\ r \in requests
  /\ r.kind = "get"
  /\ r.state = "ok"
  /\ requests' = requests \ {r}
  /\ IF Mounted
       THEN claim' = r.body /\ claimLoading' = FALSE
       ELSE UNCHANGED <<claim, claimLoading>>
  /\ UNCHANGED <<isAdmin, reqSeq, db>>
  /\ UNCHANGED <<widgetVars, pageVars, verifVars, adminVars, contactVars>>

fetchClaimRejected_mut(r) ==
  /\ r \in requests
  /\ r.kind = "get"
  /\ r.state = "failed"
  /\ requests' = requests \ {r}
  /\ toast' = Msg(CASE r.code = 404 -> "Claim not found"
                    [] r.code = 403 -> "Access denied"
                    [] OTHER -> "Failed to fetch claim details", << >>)
  /\ IF r.code = 404
       THEN route' = Route("dashboard", 0) /\ DetailUnmounted
       ELSE /\ route' = route
            /\ claim' = claim
            /\ claimLoading' = IF Mounted THEN FALSE ELSE claimLoading
  /\ UNCHANGED <<isAdmin, reqSeq, db>>
  /\ UNCHANGED <<widgetVars, formData, loading, error, posts, orphans, verifVars, adminVars, contactVars>>

\* fetchClaim after the await, request failed: toast, for 404 and 403 also
\* navigate('/dashboard', { replace: true }); setLoading(false)
fetchClaimRejected(r) ==
  /\ r \in requests
  /\ r.kind = "get"
  /\ r.state = "failed"
  /\ requests' = requests \ {r}
  /\ toast' = Msg(CASE r.code = 404 -> "Claim not found"
                    [] r.code = 403 -> "Access denied"
                    [] OTHER -> "Failed to fetch claim details", << >>)
  /\ IF r.code \in { 404, 403 }
       THEN route' = Route("dashboard", 0) /\ DetailUnmounted
       ELSE /\ route' = route
            /\ claim' = claim
            /\ claimLoading' = IF Mounted THEN FALSE ELSE claimLoading
  /\ UNCHANGED <<isAdmin, reqSeq, db>>
  /\ UNCHANGED <<widgetVars, formData, loading, error, posts, orphans, verifVars, adminVars, contactVars>>

\* an item of the status menu is clicked: updateClaimStatus up to the await.
\* The menu is rendered for admins once a claim is loaded; the item of the
\* current status is disabled.  The request names the id of the route.
updateClaimStatus_mut(newStatus) ==
  /\ Mounted
  /\ ~claimLoading
  /\ claim # NoClaim
  /\ isAdmin
  /\ claim.status # newStatus
  /\ reqSeq < MaxRequests
  /\ reqSeq' = reqSeq + 1
  /\ requests' = requests \cup
                   { [n |-> reqSeq + 1, kind |-> "put", id |-> route.id,
                      status |-> newStatus, state |-> "sent", code |-> 0,
                      body |-> NoClaim] }
  /\ claim' = [claim EXCEPT !.status = newStatus, !.updated_at = "client"]
  /\ UNCHANGED <<claimLoading, isAdmin, db>>
  /\ UNCHANGED <<widgetVars, pageVars, verifVars, adminVars, contactVars>>

updateClaimStatus_mutAnyUser(newStatus) ==
  /\ Mounted
  /\ ~claimLoading
  /\ claim # NoClaim
  /\ claim.status # newStatus
  /\ reqSeq < MaxRequests
  /\ reqSeq' = reqSeq + 1
  /\ requests' = requests \cup
                   { [n |-> reqSeq + 1, kind |-> "put", id |-> route.id,
                      status |-> newStatus, state |-> "sent", code |-> 0,
                      body |-> NoClaim] }
  /\ UNCHANGED <<claim, claimLoading, isAdmin, db>>
  /\ UNCHANGED <<widgetVars, pageVars, verifVars, adminVars, contactVars>>

updateClaimStatus(newStatus) ==
  /\ Mounted
  /\ ~claimLoading
  /\ claim # NoClaim
  /\ isAdmin
  /\ claim.status # newStatus
  /\ reqSeq < MaxRequests
  /\ reqSeq' = reqSeq + 1
  /\ requests' = requests \cup
                   { [n |-> reqSeq + 1, kind |-> "put", id |-> route.id,
                      status |-> newStatus, state |-> "sent", code |-> 0,
                      body |-> NoClaim] }
  /\ UNCHANGED <<claim, claimLoading, isAdmin, db>>
  /\ UNCHANGED <<widgetVars, pageVars, verifVars, adminVars, contactVars>>

\* the server applies PUT /admin/claims/{id}/status
PutServerOk(r) ==
  /\ r \in requests
  /\ r.kind = "put"
  /\ r.state = "sent"
  /\ db' = [db EXCEPT ![r.id] = r.status]
  /\ requests' = (requests \ {r}) \cup { [r EXCEPT !.state = "ok"] }
  /\ UNCHANGED <<claim, claimLoading, isAdmin, reqSeq>>
  /\ UNCHANGED <<widgetVars, pageVars, verifVars, adminVars, contactVars>>

\* PUT /admin/claims/{id}/status fails
PutServerFail(r) ==
  /\ r \in requests
  /\ r.kind = "put"
  /\ r.state = "sent"
  /\ requests' = (requests \ {r}) \cup { [r EXCEPT !.state = "failed"] }
  /\ UNCHANGED <<claim, claimLoading, isAdmin, reqSeq, db>>
  /\ UNCHANGED <<widgetVars, pageVars, verifVars, adminVars, contactVars>>

\* updateClaimStatus after the await, response 2xx:
\* setClaim(prev => ({ ...prev, status: newStatus, updated_at: now })), toast
updateClaimStatusResolved(r) ==
  /\ r \in requests
  /\ r.kind = "put"
  /\ r.state = "ok"
  /\ requests' = requests \ {r}
  /\ claim' = IF Mounted
                THEN [claim EXCEPT !.status = r.status, !.updated_at = "client"]
                ELSE claim
  /\ toast' = Msg("Claim status updated to {0}", << r.status >>)
  /\ UNCHANGED <<claimLoading, isAdmin, reqSeq, db>>
  /\ UNCHANGED <<widgetVars, formData, loading, error, posts, orphans, route, verifVars, adminVars, contactVars>>

\* updateClaimStatus after the await, request failed
updateClaimStatusRejected(r) ==
  /\ r \in requests
  /\ r.kind = "put"
  /\ r.state = "failed"
  /\ requests' = requests \ {r}
  /\ toast' = Msg("Failed to update claim status", << >>)
  /\ UNCHANGED <<claim, claimLoading, isAdmin, reqSeq, db>>
  /\ UNCHANGED <<widgetVars, formData, loading, error, posts, orphans, route, verifVars, adminVars, contactVars>>

\* the route changes to another claim: id changes and both effects run again
OpenClaim(c) ==
  /\ Mounted
  /\ c # route.id
  /\ reqSeq + 2 <= MaxRequests
  /\ route' = Route("claim", c)
  /\ requests' = requests \cup Gets(reqSeq + 1, 2, c)
  /\ reqSeq' = reqSeq + 2
  /\ UNCHANGED <<claim, claimLoading, isAdmin, db>>
  /\ UNCHANGED <<widgetVars, formData, loading, error, posts, orphans, toast, verifVars, adminVars, contactVars>>

\* the Back button: navigate('/dashboard', { replace: true })
Back ==
  /\ Mounted
  /\ ~claimLoading
  /\ claim # NoClaim
  /\ route' = Route("dashboard", 0)
  /\ DetailUnmounted
  /\ UNCHANGED <<isAdmin, requests, reqSeq, db>>
  /\ UNCHANGED <<widgetVars, formData, loading, error, posts, orphans, toast, verifVars, adminVars, contactVars>>

----------------------------------------------------------------------------
(* AdminDashboard page: the claim list, its filters, the selection and the *)
(* bulk status change                                                      *)

\* what the server holds for the listed claims besides their status;
\* fraud_score in tenths
ClaimRows ==
  << [id |-> 1, policy_number |-> << "A", "1" >>, location |-> << "G", "o", "a" >>,
      fraud_score |-> 2],
     [id |-> 2, policy_number |-> << "B", "2" >>, location |-> << "P", "u", "n", "e" >>,
      fraud_score |-> 8] >>

\* body of GET /claims
ClaimsBody ==
  [ i \in DOMAIN ClaimRows |->
      [ id |-> ClaimRows[i].id, policy_number |-> ClaimRows[i].policy_number,
        location |-> ClaimRows[i].location, fraud_score |-> ClaimRows[i].fraud_score,
        status |-> db[ClaimRows[i].id] ] ]

\* inputs typed into the search box and picked in the two filters
SearchTerms == { << >>, << "2" >>, << "G" >> }
StatusFilters == { "all", "pending", "approved" }
RiskFilters == { "all", "high", "low" }
BulkActions == { "approved", "rejected" }

toLowerCase(ch) ==
  CASE ch = "A" -> "a"
    [] ch = "B" -> "b"
    [] ch = "G" -> "g"
    [] ch = "P" -> "p"
    [] OTHER    -> ch

\* s.toLowerCase()
LowerCase(s) == [ i \in DOMAIN s |-> toLowerCase(s[i]) ]

\* s.includes(t)
Includes(s, t) ==
  \E i \in 0 .. Len(s) - Len(t) : SubSeq(s, i + 1, i + Len(t)) = t

\* id.toString(), for the ids in use
IdString(id) == << CASE id = 1 -> "1" [] id = 2 -> "2" [] OTHER -> "?" >>

\* the search filter of the effect
MatchesSearch(c, term) ==
  \/ Includes(LowerCase(c.policy_number), LowerCase(term))
  \/ Includes(LowerCase(c.location), LowerCase(term))
  \/ Includes(IdString(c.id), term)

\* the risk filter of the effect
MatchesRisk(c, risk) ==
  CASE risk = "high"   -> c.fraud_score > 7
    [] risk = "medium" -> c.fraud_score > 4 /\ c.fraud_score <= 7
    [] risk = "low"    -> c.fraud_score <= 4
    [] OTHER           -> TRUE

\* the filter effect: search term, then status, then risk
Filtered(cs, term, status, risk) ==
  LET bySearch == IF term # << >>
                    THEN SelectSeq(cs, LAMBDA c : MatchesSearch(c, term))
                    ELSE cs
      byStatus == IF status # "all"
                    THEN SelectSeq(bySearch, LAMBDA c : c.status = status)
                    ELSE bySearch
  IN  IF risk # "all"
        THEN SelectSeq(byStatus, LAMBDA c : MatchesRisk(c, risk))
        ELSE byStatus

\* filteredClaims.map(claim => claim.id)
IdsOfClaims(cs) == [ i \in DOMAIN cs |-> cs[i].id ]
SeqRange(s) == { s[i] : i \in DOMAIN s }

\* selectedClaims.includes(cid)
IsSelected(cid) == cid \in SeqRange(selectedClaims)

\* the select-all checkbox
SelectAllChecked ==
  Len(selectedClaims) = Len(filteredClaims) /\ Len(filteredClaims) > 0

\* the page is not shown
AdminIdle ==
  /\ claims = << >>
  /\ filteredClaims = << >>
  /\ selectedClaims = << >>
  /\ searchTerm = << >>
  /\ statusFilter = "all"
  /\ riskFilter = "all"
  /\ showBulkModal = FALSE
  /\ bulkAction = ""
  /\ adminLoading = TRUE
  /\ fetches = {}
  /\ bulks = {}
  /\ bulkSeq = 0

\* the page is opened: the mount effect calls fetchData
AdminInit ==
  /\ claims = << >>
  /\ filteredClaims = << >>
  /\ selectedClaims = << >>
  /\ searchTerm = << >>
  /\ statusFilter = "all"
  /\ riskFilter = "all"
  /\ showBulkModal = FALSE
  /\ bulkAction = ""
  /\ adminLoading = TRUE
  /\ fetches = { [n |-> 0, state |-> "sent", body |-> << >>] }
  /\ bulks = {}
  /\ bulkSeq = 0

\* what no handler of the page touches
AdminFrame ==
  UNCHANGED <<widgetVars, formData, loading, error, posts, orphans, route,
              verifVars, claim, claimLoading, isAdmin, requests, reqSeq, contactVars>>

CountString(n) == CASE n = 0 -> "0" [] n = 1 -> "1" [] n = 2 -> "2" [] OTHER -> "many"

\* the server answers GET /claims and GET /admin/stats
FetchDataServerOk(f) ==
  /\ f \in fetches
  /\ f.state = "sent"
  /\ fetches' = (fetches \ {f}) \cup { [f EXCEPT !.state = "ok", !.body = ClaimsBody] }
  /\ UNCHANGED <<claims, filteredClaims, selectedClaims, searchTerm, statusFilter,
                 riskFilter, showBulkModal, bulkAction, adminLoading, bulks, bulkSeq>>
  /\ UNCHANGED <<toast, db>>
  /\ AdminFrame

\* one of the two requests fails
FetchDataServerFail(f) ==
  /\ f \in fetches
  /\ f.state = "sent"
  /\ fetches' = (fetches \ {f}) \cup { [f EXCEPT !.state = "failed"] }
  /\ UNCHANGED <<claims, filteredClaims, selectedClaims, searchTerm, statusFilter,
                 riskFilter, showBulkModal, bulkAction, adminLoading, bulks, bulkSeq>>
  /\ UNCHANGED <<toast, db>>
  /\ AdminFrame

\* fetchData after the await, both answered 2xx: setClaims, setFilteredClaims,
\* then the filter effect runs on the new claims; setLoading(false)
fetchDataResolved(f) ==
  /\ f \in fetches
  /\ f.state = "ok"
  /\ fetches' = fetches \ {f}
  /\ claims' = f.body
  /\ filteredClaims' = Filtered(f.body, searchTerm, statusFilter, riskFilter)
  /\ adminLoading' = FALSE
  /\ UNCHANGED <<selectedClaims, searchTerm, statusFilter, riskFilter, showBulkModal,
                 bulkAction, bulks, bulkSeq>>
  /\ UNCHANGED <<toast, db>>
  /\ AdminFrame

\* fetchData after the await, a request failed
fetchDataRejected(f) ==
  /\ f \in fetches
  /\ f.state = "failed"
  /\ fetches' = fetches \ {f}
  /\ toast' = Msg("Failed to fetch data", << >>)
  /\ adminLoading' = FALSE
  /\ UNCHANGED <<claims, filteredClaims, selectedClaims, searchTerm, statusFilter,
                 riskFilter, showBulkModal, bulkAction, bulks, bulkSeq>>
  /\ UNCHANGED db
  /\ AdminFrame

\* the search box changes; the filter effect runs
setSearchTerm(term) ==
  /\ ~showBulkModal
  /\ term # searchTerm
  /\ searchTerm' = term
  /\ filteredClaims' = Filtered(claims, term, statusFilter, riskFilter)
  /\ UNCHANGED <<claims, selectedClaims, statusFilter, riskFilter, showBulkModal,
                 bulkAction, adminLoading, fetches, bulks, bulkSeq>>
  /\ UNCHANGED <<toast, db>>
  /\ AdminFrame

\* the status filter changes; the filter effect runs
setStatusFilter(status) ==
  /\ ~showBulkModal
  /\ status # statusFilter
  /\ statusFilter' = status
  /\ filteredClaims' = Filtered(claims, searchTerm, status, riskFilter)
  /\ UNCHANGED <<claims, selectedClaims, searchTerm, riskFilter, showBulkModal,
                 bulkAction, adminLoading, fetches, bulks, bulkSeq>>
  /\ UNCHANGED <<toast, db>>
  /\ AdminFrame

\* the risk filter changes; the filter effect runs
setRiskFilter(risk) ==
  /\ ~showBulkModal
  /\ risk # riskFilter
  /\ riskFilter' = risk
  /\ filteredClaims' = Filtered(claims, searchTerm, statusFilter, risk)
  /\ UNCHANGED <<claims, selectedClaims, searchTerm, statusFilter, showBulkModal,
                 bulkAction, adminLoading, fetches, bulks, bulkSeq>>
  /\ UNCHANGED <<toast, db>>
  /\ AdminFrame

\* the checkbox of a row that is shown
toggleClaimSelection(cid) ==
  /\ ~adminLoading
  /\ ~showBulkModal
  /\ cid \in SeqRange(IdsOfClaims(filteredClaims))
  /\ selectedClaims' = IF IsSelected(cid)
                         THEN SelectSeq(selectedClaims, LAMBDA id : id # cid)
                         ELSE Append(selectedClaims, cid)
  /\ UNCHANGED <<claims, filteredClaims, searchTerm, statusFilter, riskFilter,
                 showBulkModal, bulkAction, adminLoading, fetches, bulks, bulkSeq>>
  /\ UNCHANGED <<toast, db>>
  /\ AdminFrame

\* the checkbox in the table head
toggleSelectAll ==
  /\ ~adminLoading
  /\ ~showBulkModal
  /\ selectedClaims' = IF Len(selectedClaims) = Len(filteredClaims)
                         THEN << >>
                         ELSE IdsOfClaims(filteredClaims)
  /\ UNCHANGED <<claims, filteredClaims, searchTerm, statusFilter, riskFilter,
                 showBulkModal, bulkAction, adminLoading, fetches, bulks, bulkSeq>>
  /\ UNCHANGED <<toast, db>>
  /\ AdminFrame

\* the Clear button next to Bulk Action: setSelectedClaims([])
clearSelection ==
  /\ ~showBulkModal
  /\ Len(selectedClaims) > 0
  /\ selectedClaims' = << >>
  /\ UNCHANGED <<claims, filteredClaims, searchTerm, statusFilter, riskFilter,
                 showBulkModal, bulkAction, adminLoading, fetches, bulks, bulkSeq>>
  /\ UNCHANGED <<toast, db>>
  /\ AdminFrame

\* the Bulk Action button, shown while something is selected
openBulkModal ==
  /\ ~showBulkModal
  /\ Len(selectedClaims) > 0
  /\ showBulkModal' = TRUE
  /\ UNCHANGED <<claims, filteredClaims, selectedClaims, searchTerm, statusFilter,
                 riskFilter, bulkAction, adminLoading, fetches, bulks, bulkSeq>>
  /\ UNCHANGED <<toast, db>>
  /\ AdminFrame

\* Cancel or the close button of the modal
closeBulkModal ==
  /\ showBulkModal
  /\ showBulkModal' = FALSE
  /\ UNCHANGED <<claims, filteredClaims, selectedClaims, searchTerm, statusFilter,
                 riskFilter, bulkAction, adminLoading, fetches, bulks, bulkSeq>>
  /\ UNCHANGED <<toast, db>>
  /\ AdminFrame

\* the action select of the modal
setBulkAction(action) ==
  /\ showBulkModal
  /\ action # bulkAction
  /\ bulkAction' = action
  /\ UNCHANGED <<claims, filteredClaims, selectedClaims, searchTerm, statusFilter,
                 riskFilter, showBulkModal, adminLoading, fetches, bulks, bulkSeq>>
  /\ UNCHANGED <<toast, db>>
  /\ AdminFrame

\* the batch of PUT /admin/claims/{id}/status requests of one bulk action;
\* before keeps the server's statuses at the time the batch was sent
Batch(n, ids, status) ==
  [ n |-> n, count |-> Len(ids), status |-> status,
    puts |-> [ id \in SeqRange(ids) |-> "sent" ],
    before |-> [ id \in SeqRange(ids) |-> db[id] ],
    reported |-> FALSE ]

\* a batch stays in flight until handleBulkAction has reported and every
\* request of it is answered
Settled(b) == b.reported /\ \A id \in DOMAIN b.puts : b.puts[id] # "sent"
Keep(bs) == { b \in bs : ~Settled(b) }

\* Apply in the modal: handleBulkAction up to the await
handleBulkAction ==
  /\ showBulkModal
  /\ bulkAction # ""
  /\ Len(selectedClaims) # 0
  /\ bulkSeq < MaxBulks
  /\ bulkSeq' = bulkSeq + 1
  /\ bulks' = bulks \cup { Batch(bulkSeq + 1, selectedClaims, bulkAction) }
  /\ UNCHANGED <<claims, filteredClaims, selectedClaims, searchTerm, statusFilter,
                 riskFilter, showBulkModal, bulkAction, adminLoading, fetches>>
  /\ UNCHANGED <<toast, db>>
  /\ AdminFrame

\* the server applies one request of a batch
BulkPutServerOk(b, id) ==
  /\ b \in bulks
  /\ id \in DOMAIN b.puts
  /\ b.puts[id] = "sent"
  /\ db' = [db EXCEPT ![id] = b.status]
  /\ bulks' = Keep((bulks \ {b}) \cup { [b EXCEPT !.puts[id] = "ok"] })
  /\ UNCHANGED <<claims, filteredClaims, selectedClaims, searchTerm, statusFilter,
                 riskFilter, showBulkModal, bulkAction, adminLoading, fetches, bulkSeq>>
  /\ UNCHANGED toast
  /\ AdminFrame

\* one request of a batch fails
BulkPutServerFail(b, id) ==
  /\ b \in bulks
  /\ id \in DOMAIN b.puts
  /\ b.puts[id] = "sent"
  /\ bulks' = Keep((bulks \ {b}) \cup { [b EXCEPT !.puts[id] = "failed"] })
  /\ UNCHANGED <<claims, filteredClaims, selectedClaims, searchTerm, statusFilter,
                 riskFilter, showBulkModal, bulkAction, adminLoading, fetches, bulkSeq>>
  /\ UNCHANGED <<toast, db>>
  /\ AdminFrame

\* handleBulkAction after the await, Promise.all fulfilled: toast, selection
\* cleared, modal closed, fetchData
handleBulkActionResolved(b) ==
  /\ b \in bulks
  /\ ~b.reported
  /\ \A id \in DOMAIN b.puts : b.puts[id] = "ok"
  /\ toast' = Msg("{0} claims updated to {1}", << CountString(b.count), b.status >>)
  /\ selectedClaims' = << >>
  /\ showBulkModal' = FALSE
  /\ fetches' = fetches \cup { [n |-> b.n, state |-> "sent", body |-> << >>] }
  /\ bulks' = bulks \ {b}
  /\ UNCHANGED <<claims, filteredClaims, searchTerm, statusFilter, riskFilter,
                 bulkAction, adminLoading, bulkSeq>>
  /\ UNCHANGED db
  /\ AdminFrame

\* handleBulkAction after the await, Promise.all rejected by the first
\* request that failed
handleBulkActionRejected(b) ==
  /\ b \in bulks
  /\ ~b.reported
  /\ \E id \in DOMAIN b.puts : b.puts[id] = "failed"
  /\ toast' = Msg("Failed to update claims", << >>)
  /\ bulks' = Keep((bulks \ {b}) \cup { [b EXCEPT !.reported = TRUE] })
  /\ UNCHANGED <<claims, filteredClaims, selectedClaims, searchTerm, statusFilter,
                 riskFilter, showBulkModal, bulkAction, adminLoading, fetches, bulkSeq>>
  /\ UNCHANGED db
  /\ AdminFrame

----------------------------------------------------------------------------
(* Contact page (frontend/src/pages/Contact.js): the form, its validation  *)
(* and the request that sends it                                           *)

ContactFields == { "name", "email", "subject", "message" }

\* the empty form
EmptyContactForm == [ f \in ContactFields |-> << >> ]

\* no field has an error
NoErrors == [ f \in ContactFields |-> "" ]

\* what the user types into each field
ContactInputs ==
  [ name    |-> { << >>, << " " >>, << "A" >>, << "A", "l" >> },
    email   |-> { << >>, << "a", "@", "b" >>, << "a", "@", "b", ".", "c" >> },
    subject |-> { << >>, << "H", "e", "l", "p" >>, << "H", "e", "l", "l", "o" >> },
    message |-> { << >>, << "P", "l", "e", "a", "s", "e", " ", "f", "i", "x" >> } ]

\* HTTP statuses with which POST /api/contact/send can succeed: axios
\* resolves on every 2xx
ContactOkStatuses == { 200, 201 }

RECURSIVE TrimStart(_)
TrimStart(s) ==
  IF s # << >> /\ Head(s) = " " THEN TrimStart(Tail(s)) ELSE s

RECURSIVE TrimEnd(_)
TrimEnd(s) ==
  IF s # << >> /\ s[Len(s)] = " " THEN TrimEnd(SubSeq(s, 1, Len(s) - 1)) ELSE s

\* s.trim()
Trim(s) == TrimEnd(TrimStart(s))

\* /^[^\s@]+@[^\s@]+\.[^\s@]+$/.test(s)
emailRegexTest(s) ==
  \E i \in 1 .. Len(s), j \in 1 .. Len(s) :
    /\ s[i] = "@"
    /\ s[j] = "."
    /\ i > 1
    /\ j > i + 1
    /\ j < Len(s)
    /\ \A k \in (1 .. Len(s)) \ {i} : s[k] \notin { " ", "@" }

\* newErrors of validateForm; "" for a field without an entry
NewErrors(form) ==
  [ f \in ContactFields |->
      CASE f = "name" ->
             IF Trim(form.name) = << >> THEN "Name is required"
             ELSE IF Len(Trim(form.name)) < 2 THEN "Name must be at least 2 characters"
             ELSE ""
        [] f = "email" ->
             IF Trim(form.email) = << >> THEN "Email is required"
             ELSE IF ~emailRegexTest(form.email) THEN "Please enter a valid email address"
             ELSE ""
        [] f = "subject" ->
             IF Trim(form.subject) = << >> THEN "Subject is required"
             ELSE IF Len(Trim(form.subject)) < 5 THEN "Subject must be at least 5 characters"
             ELSE ""
        [] OTHER ->
             IF Trim(form.message) = << >> THEN "Message is required"
             ELSE IF Len(Trim(form.message)) < 10 THEN "Message must be at least 10 characters"
             ELSE "" ]

\* return value of validateForm: Object.keys(newErrors).length === 0
validateForm(form) == NewErrors(form) = NoErrors

\* the submit button: disabled={loading}
ContactSubmitDisabled == contactLoading

\* the page is not shown
ContactIdle ==
  /\ contactForm = EmptyContactForm
  /\ contactLoading = FALSE
  /\ contactSuccess = FALSE
  /\ contactErrors = NoErrors
  /\ contactPosts = {}

\* what no handler of the page touches
ContactFrame ==
  UNCHANGED <<widgetVars, formData, loading, error, posts, orphans, route,
              verifVars, detailVars, adminVars>>

\* a field is edited: its value is stored and its error cleared
contactHandleChange(name, value) ==
  /\ value # contactForm[name]
  /\ contactForm' = [contactForm EXCEPT ![name] = value]
  /\ contactErrors' = IF contactErrors[name] # ""
                        THEN [contactErrors EXCEPT ![name] = ""]
                        ELSE contactErrors
  /\ UNCHANGED <<contactLoading, contactSuccess, contactPosts, toast>>
  /\ ContactFrame

\* the form is submitted: handleSubmit up to the await
contactHandleSubmit ==
  /\ ~ContactSubmitDisabled
  /\ contactSuccess' = FALSE
  /\ contactErrors' = NewErrors(contactForm)
  /\ IF ~validateForm(contactForm)
       THEN /\ toast' = Msg("Please fix the errors below and try again.", << >>)
            /\ UNCHANGED <<contactLoading, contactPosts>>
       ELSE /\ contactLoading' = TRUE
            /\ contactPosts' = contactPosts \cup
                 { [state |-> "sent", status |-> 0, data |-> contactForm] }
            /\ UNCHANGED toast
  /\ UNCHANGED contactForm
  /\ ContactFrame

\* the server answers POST /api/contact/send with a 2xx status
ContactServerOk(p, status) ==
  /\ p \in contactPosts
  /\ p.state = "sent"
  /\ contactPosts' = (contactPosts \ {p}) \cup
       { [p EXCEPT !.state = "ok", !.status = status] }
  /\ UNCHANGED <<contactForm, contactLoading, contactSuccess, contactErrors, toast>>
  /\ ContactFrame

\* the request fails
ContactServerFail(p) ==
  /\ p \in contactPosts
  /\ p.state = "sent"
  /\ contactPosts' = (contactPosts \ {p}) \cup { [p EXCEPT !.state = "failed"] }
  /\ UNCHANGED <<contactForm, contactLoading, contactSuccess, contactErrors, toast>>
  /\ ContactFrame

\* handleSubmit after the await, the request fulfilled
contactHandleSubmitResolved(p) ==
  /\ p \in contactPosts
  /\ p.state = "ok"
  /\ contactPosts' = contactPosts \ {p}
  /\ IF p.status = 200
       THEN /\ contactSuccess' = TRUE
            /\ contactLoading' = FALSE
            /\ contactErrors' = NoErrors
            /\ toast' = Msg("Message sent successfully! We'll respond within 24 hours.",
                            << >>)
            /\ contactForm' = EmptyContactForm
       ELSE UNCHANGED <<contactForm, contactLoading, contactSuccess, contactErrors, toast>>
  /\ ContactFrame

\* handleSubmit after the await, the request rejected
contactHandleSubmitRejected(p) ==
  /\ p \in contactPosts
  /\ p.state = "failed"
  /\ contactPosts' = contactPosts \ {p}
  /\ contactLoading' = FALSE
  /\ toast' = Msg("Failed to send message. Please try again.", << >>)
  /\ UNCHANGED <<contactForm, contactSuccess, contactErrors>>
  /\ ContactFrame

\* the Reset Form button
contactReset ==
  /\ ~contactLoading
  /\ contactForm' = EmptyContactForm
  /\ contactErrors' = NoErrors
  /\ contactSuccess' = FALSE
  /\ UNCHANGED <<contactLoading, contactPosts, toast>>
  /\ ContactFrame

----------------------------------------------------------------------------
(* Upload queue: the ImageUpload widget on the new-claim page *)

Init == WidgetInit /\ PageInit /\ VerifIdle /\ DetailIdle /\ AdminIdle /\ ContactIdle

Next ==
  \/ \E c \in CategoryValues : setSelectedCategory(c)
  \/ \E n \in 0 .. MaxDrop, o \in 0 .. 1 : onDrop(n, o)
  \/ \E index \in 1 .. MaxId : removeFile(index)
  \/ \E index \in 1 .. MaxId, c \in CategoryValues : updateFileCategory(index, c)
  \/ Render
  \/ Cancel

Spec == Init /\ [][Next]_vars

----------------------------------------------------------------------------
(* Submission: the new-claim form submitted with a staged queue *)

\* the queue after n files were dropped and given the categories cats
StagedQueue(n, cats) ==
  [ i \in 1 .. n |->
      [ id |-> i, preview |-> i, category |-> cats[i],
        categoryLabel |-> LabelOf(cats[i]) ] ]

SubmitInit ==
  /\ \E n \in 0 .. MaxStaged : \E cats \in [1 .. n -> CategoryValues] :
        /\ files = StagedQueue(n, cats)
        /\ view = IdsOf(files)
        /\ nextId = n + 1
        /\ objectURLs = 1 .. n
  /\ selectedCategory \in CategoryValues
  /\ PageInit
  /\ VerifIdle
  /\ DetailIdle
  /\ AdminIdle
  /\ ContactIdle

SubmitNext ==
  \/ \E name \in FormFields, value \in FormValues : handleChange(name, value)
  \/ handleSubmit
  \/ \E id \in ClaimIds : PostOk(id)
  \/ \E d \in ServerDetails : PostFail(d)
  \/ \E id \in ClaimIds : OrphanPostOk(id)
  \/ \E d \in ServerDetails : OrphanPostFail(d)
  \/ Cancel

SubmitSpec == SubmitInit /\ [][SubmitNext]_vars

----------------------------------------------------------------------------
(* Verification: the CarVerification widget on the claim view *)

VerificationInit ==
  /\ WidgetInit
  /\ formData = InitialForm
  /\ loading = FALSE
  /\ error = NoMsg
  /\ posts = 0
  /\ orphans = 0
  /\ route = Route("claim", 1)
  /\ toast = NoMsg
  /\ VerifInit
  /\ DetailIdle
  /\ AdminIdle
  /\ ContactIdle

VerificationNext ==
  \/ \E p \in polls : PollServerOk(p)
  \/ \E p \in polls : PollServerFail(p)
  \/ \E p \in polls : PollResolved(p)
  \/ \E p \in polls : PollRejected(p)
  \/ \E a \in AngleIds : StartUpload(a)
  \/ \E u \in uploads, v \in BOOLEAN : UploadServerOk(u, v)
  \/ \E u \in uploads, f \in UploadFailures : UploadServerFail(u, f)
  \/ \E u \in uploads : UploadResolved(u)
  \/ \E u \in uploads : UploadRejected(u)
  \/ \E c \in ClaimIds : SetClaimId(c)

VerificationSpec == VerificationInit /\ [][VerificationNext]_vars

\* the same widget on a claim with nothing uploaded yet, where the event
\* loop runs the continuation of every answered upload request
VerificationLiveInit ==
  /\ VerificationInit
  /\ server = [ c \in ClaimIds |-> AnglesNone ]

VerificationLiveSpec ==
  /\ VerificationLiveInit
  /\ [][VerificationNext]_vars
  /\ WF_vars(\E u \in uploads : UploadResolved(u))
  /\ WF_vars(\E u \in uploads : UploadRejected(u))

----------------------------------------------------------------------------
(* Claim view: the ViewClaim page against its server *)

ClaimViewInit ==
  /\ WidgetInit
  /\ formData = InitialForm
  /\ loading = FALSE
  /\ error = NoMsg
  /\ posts = 0
  /\ orphans = 0
  /\ route = Route("claim", 1)
  /\ toast = NoMsg
  /\ VerifIdle
  /\ DetailInit
  /\ AdminIdle
  /\ ContactIdle

ClaimViewNext ==
  \/ \E r \in requests : FetchServerOk(r)
  \/ \E r \in requests, code \in FetchFailures : FetchServerFail(r, code)
  \/ \E r \in requests : fetchClaimResolved(r)
  \/ \E r \in requests : fetchClaimRejected(r)
  \/ \E s \in Statuses : updateClaimStatus(s)
  \/ \E r \in requests : PutServerOk(r)
  \/ \E r \in requests : PutServerFail(r)
  \/ \E r \in requests : updateClaimStatusResolved(r)
  \/ \E r \in requests : updateClaimStatusRejected(r)
  \/ \E c \in ClaimIds : OpenClaim(c)
  \/ Back

ClaimViewSpec == ClaimViewInit /\ [][ClaimViewNext]_vars

----------------------------------------------------------------------------
(* Admin dashboard: the AdminDashboard page against its server *)

AdminDashboardInit ==
  /\ WidgetInit
  /\ formData = InitialForm
  /\ loading = FALSE
  /\ error = NoMsg
  /\ posts = 0
  /\ orphans = 0
  /\ route = Route("admin", 0)
  /\ toast = NoMsg
  /\ VerifIdle
  /\ DetailIdle
  /\ ContactIdle
  /\ AdminInit

AdminDashboardNext ==
  \/ \E f \in fetches : FetchDataServerOk(f)
  \/ \E f \in fetches : FetchDataServerFail(f)
  \/ \E f \in fetches : fetchDataResolved(f)
  \/ \E f \in fetches : fetchDataRejected(f)
  \/ \E term \in SearchTerms : setSearchTerm(term)
  \/ \E status \in StatusFilters : setStatusFilter(status)
  \/ \E risk \in RiskFilters : setRiskFilter(risk)
  \/ \E cid \in ClaimIds : toggleClaimSelection(cid)
  \/ toggleSelectAll
  \/ clearSelection
  \/ openBulkModal
  \/ closeBulkModal
  \/ \E action \in BulkActions \cup { "" } : setBulkAction(action)
  \/ handleBulkAction
  \/ \E b \in bulks, id \in ClaimIds : BulkPutServerOk(b, id)
  \/ \E b \in bulks, id \in ClaimIds : BulkPutServerFail(b, id)
  \/ \E b \in bulks : handleBulkActionResolved(b)
  \/ \E b \in bulks : handleBulkActionRejected(b)

AdminDashboardSpec == AdminDashboardInit /\ [][AdminDashboardNext]_vars

----------------------------------------------------------------------------
(* Contact: the Contact page against its server *)

ContactInit ==
  /\ WidgetInit
  /\ formData = InitialForm
  /\ loading = FALSE
  /\ error = NoMsg
  /\ posts = 0
  /\ orphans = 0
  /\ route = Route("contact", 0)
  /\ toast = NoMsg
  /\ VerifIdle
  /\ DetailIdle
  /\ AdminIdle
  /\ ContactIdle

ContactNext ==
  \/ \E name \in ContactFields : \E value \in ContactInputs[name] :
       contactHandleChange(name, value)
  \/ contactHandleSubmit
  \/ \E p \in contactPosts, status \in ContactOkStatuses : ContactServerOk(p, status)
  \/ \E p \in contactPosts : ContactServerFail(p)
  \/ \E p \in contactPosts : contactHandleSubmitResolved(p)
  \/ \E p \in contactPosts : contactHandleSubmitRejected(p)
  \/ contactReset

ContactSpec == ContactInit /\ [][ContactNext]_vars

----------------------------------------------------------------------------
(* Properties of the upload queue and of the submission *)

RequiredSet == { "front", "rear", "back", "top" }

\* the required categories no staged file has
MissingSet(fs) ==
  { c \in RequiredSet : \A i \in DOMAIN fs : fs[i].category # c }

Covers(fs) == \A c \in RequiredSet : \E i \in DOMAIN fs : fs[i].category = c

CapitalName ==
  [ front |-> << "F", "r", "o", "n", "t" >>,
    rear  |-> << "R", "e", "a", "r" >>,
    back  |-> << "B", "a", "c", "k" >>,
    top   |-> << "T", "o", "p" >> ]

NamedSet(m) == { m.names[i] : i \in DOMAIN m.names }

ViewLabel ==
  [ front |-> "Front View", rear |-> "Rear View",
    back |-> "Back View", top |-> "Top View" ]

WithoutId(fs, id) == SelectSeq(fs, LAMBDA f : f.id # id)

WithCategoryOf(fs, id, c) ==
  [ i \in DOMAIN fs |->
      IF fs[i].id = id
        THEN [ fs[i] EXCEPT !.category = c, !.categoryLabel = ViewLabel[c] ]
        ELSE fs[i] ]

\* C1 as stated: a submission with any staged set that misses a required
\* category sets an error naming exactly the missing categories and issues no
\* POST /claims.
C1_NamesMissing_Original ==
  [][ (handleSubmit /\ MissingSet(files) # {})
        => /\ NamedSet(error') = { CapitalName[c] : c \in MissingSet(files) }
           /\ posts' = posts ]_vars

\* C1 amended: a submission with a non-empty staged set that misses a required
\* category sets the error "Missing required vehicle images: " followed by
\* exactly the missing categories, each once; a submission with nothing staged
\* sets the error "Please upload at least one image", which names no category;
\* in both cases no POST /claims is issued and loading stays false.
C1_NamesMissing ==
  [][ (handleSubmit /\ MissingSet(files) # {})
        => /\ posts' = posts
           /\ loading' = loading
           /\ IF files = << >>
                THEN error' = Msg("Please upload at least one image", << >>)
                ELSE /\ error'.text = "Missing required vehicle images: "
                     /\ NamedSet(error') = { CapitalName[c] : c \in MissingSet(files) }
                     /\ Len(error'.names) = Cardinality(MissingSet(files)) ]_vars

C1_Witness ==
  /\ files # << >>
  /\ Cardinality(MissingSet(files)) = 2
  /\ error.text = "Missing required vehicle images: "
  /\ NamedSet(error) = { CapitalName[c] : c \in MissingSet(files) }
  /\ posts = 0
  /\ ~loading

\* C2: with a staged set that covers all required categories,
\* getMissingCategories is empty and a submission issues exactly one
\* POST /claims (loading set, error cleared).
C2_CoveredSubmits ==
  [][ (handleSubmit /\ Covers(files))
        => /\ getMissingCategories(files) = << >>
           /\ posts' = posts + 1
           /\ loading'
           /\ error' = NoMsg ]_vars

C2_Witness ==
  /\ Covers(files)
  /\ getMissingCategories(files) = << >>
  /\ posts = 1
  /\ loading

\* C3 as stated: the queue never holds more than maxFiles files.
C3_QueueWithinMax == Len(files) <= maxFiles

\* C4 as stated: every preview handle that is allocated belongs to a file that
\* is still staged.
C4_PreviewReleased ==
  objectURLs \subseteq { files[i].preview : i \in DOMAIN files }

\* C5: the coverage maps each category to the number of staged files that
\* carry it (two front and one rear give front 2, rear 1).
C5_CoverageCounts ==
  LET stats == getCategoryStats(files)
  IN  /\ DOMAIN stats = RequiredSet
      /\ \A c \in RequiredSet :
           stats[c] = Cardinality({ i \in DOMAIN files : files[i].category = c })

C5_Witness ==
  /\ nextId = 4
  /\ Len(files) = 3
  /\ files[1].category = "front"
  /\ files[2].category = "front"
  /\ files[3].category = "rear"
  /\ getCategoryStats(files) = [ front |-> 2, rear |-> 1, back |-> 0, top |-> 0 ]

\* C6: a removeFile that takes a file out of the queue lowers the coverage of
\* that file's category by exactly one and leaves every other category's
\* coverage as it was.
C6_RemoveLowersOne ==
  [][ \A index \in 1 .. MaxId :
        (removeFile(index) /\ index \in DOMAIN files)
          => LET before == getCategoryStats(files)
                 after == getCategoryStats(files')
             IN  \A c \in RequiredSet :
                   after[c] = IF c = files[index].category
                                THEN before[c] - 1 ELSE before[c] ]_vars

\* a file was removed and others stay staged
C6_Witness ==
  /\ OnNewClaim
  /\ Len(files) >= 2
  /\ \E id \in 1 .. (nextId - 1) : \A i \in DOMAIN files : files[i].id # id
  /\ view = IdsOf(files)

\* C7 as stated: removeFile takes out only the file shown on the card it was
\* clicked on, and updateFileCategory changes only the category (and label) of
\* the file shown on the card it was used on, also when the card was rendered
\* before an earlier operation.
C7_ActsOnAddressed ==
  [][ \A index \in 1 .. MaxId :
        /\ removeFile(index) => files' = WithoutId(files, view[index])
        /\ \A c \in CategoryValues :
             updateFileCategory(index, c)
               => files' = WithCategoryOf(files, view[index], c) ]_vars

\* C8: every staged file's category is front, rear, back or top, and its
\* categoryLabel is the label of that category.
C8_CategoryInEnum ==
  \A i \in DOMAIN files :
    /\ files[i].category \in RequiredSet
    /\ files[i].categoryLabel = ViewLabel[files[i].category]

\* two files staged under different categories
C8_Witness ==
  /\ Len(files) = 2
  /\ nextId = 3
  /\ files[1].category = "top"
  /\ files[2].category = "back"

C10_UploadFailureKeepsState ==
  [][ \A u \in uploads :
        UploadRejected(u)
          => /\ verificationStatus' = verificationStatus
             /\ files' = files
             /\ polls' = polls
             /\ toast'.names[1] = u.angle
             /\ (u.failure.detail # ""
                   => toast'.names[2] = u.failure.detail) ]_vars

C10_Witness ==
  /\ toast = Msg("Failed to upload {0} image: {1}",
                 << "left", "Image does not match the vehicle" >>)
  /\ verificationStatus # NoStatus
  /\ verificationStatus.angles["front"].uploaded
  /\ ~isUploading
  /\ uploads = {}

----------------------------------------------------------------------------
(* Properties of the verification widget *)

ProgressStep == 100 \div Len(ANGLES)

\* the status request issued by the first successful upload of the visit
FirstUploadPoll(p) == pollSeq = 2 /\ p.n = 2 /\ p.claim = 1

\* C11 as stated: the poll performed after one successful per-angle upload
\* shows overallProgress higher by 100/totalAngles than it was before the
\* upload.
C11_ProgressRises_Original ==
  [][ \A p \in polls :
        (PollResolved(p) /\ FirstUploadPoll(p))
          => overallProgress' = overallProgress + ProgressStep ]_vars

\* C11: the poll performed after a successful per-angle upload replaces the
\* displayed overallProgress by verified_angles / total_angles * 100 of its
\* answer; the value is 100/totalAngles higher than before exactly when the
\* answer counts one verified angle more than the cached status did, and it
\* is unchanged when the count is unchanged (the upload was stored but the
\* angle is left pending review, or the angle was verified before).
C11_ProgressFollowsPoll ==
  [][ \A p \in polls :
        (PollResolved(p) /\ FirstUploadPoll(p))
          => /\ overallProgress' * p.body.total_angles = 100 * p.body.verified_angles
             /\ verificationStatus # NoStatus
                  => /\ (overallProgress' = overallProgress + ProgressStep)
                          <=> (p.body.verified_angles
                                 = verificationStatus.verified_angles + 1)
                     /\ (p.body.verified_angles = verificationStatus.verified_angles)
                          => overallProgress' = overallProgress ]_vars

C11_Witness ==
  /\ shownPoll = 2
  /\ pollSeq = 2
  /\ claimId = 1
  /\ toast = Msg("{0} image uploaded successfully", << "front" >>)
  /\ verificationStatus.angles["front"].uploaded
  /\ ~verificationStatus.angles["front"].verified
  /\ overallProgress = 0

C13_ProgressIsRatio ==
  /\ verificationStatus = NoStatus => overallProgress = 0
  /\ verificationStatus # NoStatus
       => overallProgress * verificationStatus.total_angles
            = verificationStatus.verified_angles * 100
  /\ overallProgress \in 0 .. 100
  /\ HeaderBadge.percent = overallProgress

C13_Witness ==
  /\ verificationStatus # NoStatus
  /\ verificationStatus.verified_angles = 3
  /\ overallProgress = 75

\* C14: one status request is issued when the widget mounts for a claim and
\* one by each successful per-angle upload, for the claim of that upload; a
\* failed upload issues none, and nothing else issues one.
C14_RefreshOncePerUpload ==
  /\ pollSeq = 1
  /\ polls = { Poll(1, claimId) }
  /\ [][ /\ \A u \in uploads :
              UploadResolved(u)
                => /\ pollSeq' = pollSeq + 1
                   /\ polls' = polls \cup { Poll(pollSeq + 1, u.claim) }
         /\ \A u \in uploads :
              UploadRejected(u) => (pollSeq' = pollSeq /\ polls' = polls)
         /\ \A c \in ClaimIds :
              SetClaimId(c)
                => /\ pollSeq' = pollSeq + 1
                   /\ polls' = polls \cup { Poll(pollSeq + 1, c) }
         /\ pollSeq' # pollSeq
              => \/ \E u \in uploads : UploadResolved(u)
                 \/ \E c \in ClaimIds : SetClaimId(c) ]_vars

C14_Witness ==
  /\ pollSeq = 2
  /\ shownPoll = 2
  /\ polls = {}
  /\ uploads = {}
  /\ toast = Msg("Failed to upload {0} image: {1}", << "back", "Network Error" >>)
  /\ verificationStatus.angles["front"].uploaded

\* C15: while an upload for an angle is in flight the control of that angle
\* is disabled, and no two uploads for the same angle of the same claim are
\* in flight.
C15_SerializedPerAngle ==
  /\ \A u \in uploads : UploadDisabled(u.angle)
  /\ \A u, v \in uploads : (u.claim = v.claim /\ u.angle = v.angle) => u = v

C15_Witness ==
  /\ ~isLoading
  /\ isUploading
  /\ activeAngle = "front"
  /\ \E u \in uploads : u.angle = "front" /\ u.state = "sent"

\* C16 as stated: an upload in flight for one angle does not block the
\* controls of the other angles.
C16_AnglesIndependent ==
  \A u \in uploads : \A a \in AngleIds \ { u.angle } : ~UploadDisabled(a)

\* C17 as stated: the answer of an older status request never replaces the
\* answer of a request issued later, so that the status shown when every
\* answer has arrived is the one of the latest request.
C17_LatestPollShown ==
  [][ shownPoll' >= shownPoll ]_vars

\* C18: the cached status changes only by being replaced with the body of
\* a successful status answer; starting an upload, its success, its failure
\* and a failed status request leave it as it was.
C18_CacheReplacedByPoll ==
  [][ /\ verificationStatus' # verificationStatus
           => \E p \in polls :
                /\ p.state = "ok"
                /\ PollResolved(p)
                /\ verificationStatus' = p.body
      /\ \A p \in polls : PollRejected(p) => verificationStatus' = verificationStatus
      /\ \A a \in AngleIds : StartUpload(a) => verificationStatus' = verificationStatus
      /\ \A u \in uploads :
           (UploadResolved(u) \/ UploadRejected(u))
             => verificationStatus' = verificationStatus ]_vars

C18_Witness ==
  /\ toast = Msg("Failed to load verification status", << >>)
  /\ shownPoll = 1
  /\ pollSeq = 2
  /\ polls = {}
  /\ verificationStatus # NoStatus
  /\ ~verificationStatus.angles["front"].uploaded
  /\ server[1]["front"] = "verified"

----------------------------------------------------------------------------
(* Properties of the navigation after a submission *)

\* C19: after POST /claims answered 2xx the client navigates to the detail
\* view of the claim whose id the server returned; it navigates to a detail
\* view on no other step: not when validation rejects the submission and
\* not when the request failed.
C19_NavigatesToNewClaim ==
  [][ /\ \A id \in ClaimIds :
           (PostOk(id) \/ OrphanPostOk(id)) => route' = Route("claim", id)
      /\ (route' # route /\ route'.page = "claim")
           => \E id \in ClaimIds :
                /\ PostOk(id) \/ OrphanPostOk(id)
                /\ route' = Route("claim", id)
      /\ \A d \in ServerDetails :
           (PostFail(d) \/ OrphanPostFail(d)) => route' = route
      /\ handleSubmit => route' = route ]_vars

C19_Witness ==
  /\ route = Route("claim", 2)
  /\ toast = Msg("Claim submitted successfully!", << >>)
  /\ posts = 0
  /\ orphans = 0

----------------------------------------------------------------------------
(* Properties of the claim view *)

\* C20: the client edits its claim record only when a status-change PUT has
\* answered 2xx, and then sets status to the value that request asked for;
\* issuing the request and a failed request leave the record as it was.
\* Apart from that the record is only replaced by a fetched one or dropped
\* with the page.
C20_MutatedAfterPutSucceeds ==
  [][ /\ claim' # claim
           => \/ \E r \in requests :
                   /\ r.kind = "put"
                   /\ r.state = "ok"
                   /\ updateClaimStatusResolved(r)
                   /\ claim'.status = r.status
                   /\ claim'.id = claim.id
              \/ \E r \in requests : fetchClaimResolved(r) /\ claim' = r.body
              \/ Mounted /\ route'.page # "claim" /\ claim' = NoClaim
      /\ \A r \in requests : updateClaimStatusRejected(r) => claim' = claim
      /\ \A s \in Statuses : updateClaimStatus(s) => claim' = claim ]_vars

C20_Witness ==
  /\ Mounted
  /\ claim # NoClaim
  /\ claim.status = "approved"
  /\ claim.updated_at = "client"
  /\ db[claim.id] = "approved"
  /\ toast = Msg("Claim status updated to {0}", << "approved" >>)

\* the spinner that replaces the claim view while loading
ClaimSpinnerShown == Mounted /\ claimLoading

\* C21: a claim fetch that fails with 404 or 403 shows a notification and
\* redirects to the dashboard; any other failure shows a notification and
\* leaves the route alone; after either the view no longer shows the spinner.
C21_FetchFailureHandled ==
  [][ \A r \in requests :
        fetchClaimRejected(r)
          => /\ r.code = 404 => toast' = Msg("Claim not found", << >>)
             /\ r.code = 403 => toast' = Msg("Access denied", << >>)
             /\ r.code \in { 404, 403 } => route' = Route("dashboard", 0)
             /\ r.code \notin { 404, 403 }
                  => /\ toast' = Msg("Failed to fetch claim details", << >>)
                     /\ route' = route
             /\ ~ClaimSpinnerShown' ]_vars

C21_Witness ==
  /\ toast = Msg("Access denied", << >>)
  /\ route = Route("dashboard", 0)
  /\ claim = NoClaim

\* C22 as stated: the answer to a claim fetch that arrives after the view
\* moved on to another claim does not change the claim that is displayed.
C22_StaleResponseDiscarded ==
  [][ \A r \in requests :
        (Mounted /\ r.kind = "get" /\ r.id # route.id /\ fetchClaimResolved(r))
          => claim' = claim ]_vars

\* C25: a status-change request is in flight only when the signed-in user
\* is an admin; a user who is not an admin never has one issued.
C25_PutOnlyByAdmin ==
  \A r \in requests : r.kind = "put" => isAdmin

C25_Witness ==
  /\ ~isAdmin
  /\ Mounted
  /\ ~claimLoading
  /\ claim # NoClaim
  /\ requests = {}

\* C26 as stated: once every answer has arrived, the status displayed for
\* the claim is the status the server holds for it.
C26_StatusMatchesServer ==
  (Mounted /\ ~claimLoading /\ claim # NoClaim /\ claim.id = route.id /\ requests = {})
    => claim.status = db[claim.id]

----------------------------------------------------------------------------
(* Properties of the submission in flight *)

----------------------------------------------------------------------------
(* Properties of the upload controls *)

\* C24: every per-angle upload that was answered, with success or with a
\* failure, leads to isUploading false and activeAngle cleared, and the
\* controls are never disabled while no upload is in flight.
C24_UploadControlsReleased ==
  /\ (\E u \in uploads : u.state # "sent") ~> (~isUploading /\ activeAngle = "null")
  /\ [](uploads = {} => (~isUploading /\ activeAngle = "null"))

C24_Witness ==
  /\ uploads = {}
  /\ ~isLoading
  /\ ~isUploading
  /\ activeAngle = "null"
  /\ toast = Msg("Failed to upload {0} image: {1}", << "right", "Network Error" >>)

----------------------------------------------------------------------------
(* Properties of the admin dashboard *)

\* the ids selected and the ids of the rows shown
SelectedIds == SeqRange(selectedClaims)
ShownIds == SeqRange(IdsOfClaims(filteredClaims))

\* C27: after any sequence of row selections, select-all toggles and
\* filter or search changes, every selected claim id is the id of a claim
\* in the filtered list, so the batch a bulk action sends names shown
\* claims only.
C27_SelectedAreShown ==
  /\ [](SelectedIds \subseteq ShownIds)
  /\ [][ handleBulkAction =>
           \A b \in bulks' \ bulks : DOMAIN b.puts \subseteq ShownIds ]_vars

\* C28: the select-all checkbox is checked exactly when the selected ids
\* are the ids of the filtered claims and there is at least one; toggling
\* it empties the selection in that case and otherwise selects exactly the
\* filtered claims.
C28_SelectAllMeansAll ==
  /\ [](SelectAllChecked <=> (SelectedIds = ShownIds /\ ShownIds # {}))
  /\ [][ toggleSelectAll =>
           IF SelectedIds = ShownIds /\ ShownIds # {}
             THEN selectedClaims' = << >>
             ELSE SeqRange(selectedClaims') = ShownIds ]_vars

\* C29: when handleBulkAction reports failure, every claim of the batch
\* has on the server the status it had when the batch was sent; when it
\* reports success, every claim of the batch has the new status and
\* fetchData is called.
C29_BulkAllOrNothing ==
  [][ \A b \in bulks :
        /\ handleBulkActionRejected(b) =>
             \A id \in DOMAIN b.puts : db[id] = b.before[id]
        /\ handleBulkActionResolved(b) =>
             /\ \A id \in DOMAIN b.puts : db[id] = b.status
             /\ \E f \in fetches' \ fetches : f.state = "sent" ]_vars

----------------------------------------------------------------------------
(* Properties of the contact form *)

\* C30: when the request of a contact-form submission completes, with any
\* successful response or with a failure, loading is false afterwards and
\* the submit button enabled; a failure leaves the form fields as they
\* were.
C30_LoadingReleased ==
  [][ \A p \in contactPosts :
        /\ (contactHandleSubmitResolved(p) \/ contactHandleSubmitRejected(p)) =>
             (~contactLoading' /\ ~ContactSubmitDisabled')
        /\ contactHandleSubmitRejected(p) => contactForm' = contactForm ]_vars

====
